---- MODULE Spec2Model ----
(***************************************************************************)
(* A model of src/validate_structure.py, the documentation structure       *)
(* validator: load docs.json, validate its schema, extract the navigation  *)
(* pages, scan the tree for .mdx files, and report missing pages, orphan   *)
(* files and broken internal links.                                         *)
(*                                                                         *)
(* Python strings are sequences of one-character strings, so that prefix,  *)
(* suffix, split and replace are computed and not assumed.  JSON values    *)
(* are tagged records: [t |-> "null"], [t |-> "bool", b], [t |-> "num", n],*)
(* [t |-> "str", s], [t |-> "list", l], [t |-> "dict", d] where d is a     *)
(* function from keys (strings as above) to JSON values.                   *)
(***************************************************************************)
EXTENDS Integers, Sequences, FiniteSets, TLC

VARIABLES
    ossep,          \* os.sep of the platform: "/" or "\\"
    DOCS_ROOT,      \* os.getcwd() at import, a string
    docs,           \* docs.json on disk: absent, invalid, or its parsed value
    tree,           \* the files below DOCS_ROOT: [dir, name, text]
    pc,             \* the position of validate() (or of the called function)
    config,         \* validate: config
    schema_errors,  \* validate: schema_errors
    nav_pages,      \* validate: nav_pages
    found_files,    \* validate: found_files
    missing_files,  \* validate: missing_files
    orphans,        \* validate: orphans, in the order the report iterates it
    broken_links,   \* validate_links: broken_links
    out,            \* the lines printed to stdout by this process
    calls,          \* history: the functions this process has called
    run,            \* which run of the program this is (1 or 2)
    prev_out        \* what the first run printed

vars == << ossep, DOCS_ROOT, docs, tree, pc, config, schema_errors, nav_pages,
           found_files, missing_files, orphans, broken_links, out, calls,
           run, prev_out >>

-----------------------------------------------------------------------------
(* Bounds of the model.                                                    *)

MaxPages == 2
MaxGroups == 2
MaxTabs == 2
MaxFiles == 3
MaxLinks == 2

-----------------------------------------------------------------------------
(* Python str operations.                                                  *)

\* s.startswith(p)
StartsWith(s, p) == Len(s) >= Len(p) /\ SubSeq(s, 1, Len(p)) = p

\* s.startswith((p1, p2, ...))
StartsWithAny(s, ps) == \E i \in 1..Len(ps) : StartsWith(s, ps[i])

\* s.endswith(p)
EndsWith(s, p) ==
    Len(s) >= Len(p) /\ SubSeq(s, Len(s) - Len(p) + 1, Len(s)) = p

\* s.find(c, i - 1) + 1 for a one-character c: the first index of c from i
\* on, 0 when there is none
RECURSIVE FindFrom(_, _, _)
FindFrom(s, c, i) ==
    IF i > Len(s) THEN 0
    ELSE IF s[i] = c THEN i
    ELSE FindFrom(s, c, i + 1)

\* s.find(c) + 1
Find(s, c) == FindFrom(s, c, 1)

\* s.rfind(c, 0, i) + 1 for a one-character c: the last index of c up to i,
\* 0 when there is none
RECURSIVE RFindFrom(_, _, _)
RFindFrom(s, c, i) ==
    IF i < 1 THEN 0
    ELSE IF s[i] = c THEN i
    ELSE RFindFrom(s, c, i - 1)

\* s.rfind(c) + 1
RFind(s, c) == RFindFrom(s, c, Len(s))

\* s.split(c) for a one-character c: the list of the pieces between the c's
RECURSIVE Split(_, _)
Split(s, c) ==
    LET i == Find(s, c)
    IN  IF i = 0 THEN << s >>
        ELSE << SubSeq(s, 1, i - 1) >> \o Split(SubSeq(s, i + 1, Len(s)), c)

\* c.join(parts)
RECURSIVE Join(_, _)
Join(parts, c) ==
    IF Len(parts) = 0 THEN << >>
    ELSE IF Len(parts) = 1 THEN parts[1]
    ELSE parts[1] \o << c >> \o Join(Tail(parts), c)

\* s.replace(a, b) for one-character a and b
Replace(s, a, b) == [i \in 1..Len(s) |-> IF s[i] = a THEN b ELSE s[i]]

\* [x for x in l if x]: the non-empty strings of a list
RECURSIVE NonEmpty(_)
NonEmpty(l) ==
    IF Len(l) = 0 THEN << >>
    ELSE (IF Len(Head(l)) = 0 THEN << >> ELSE << Head(l) >>) \o NonEmpty(Tail(l))

\* x in l, for a list l
InList(x, l) == \E i \in 1..Len(l) : l[i] = x

\* the orders in which iterating over the set S can yield its elements: the
\* order of a set of str depends on the process's hash seed
IterationOrders(S) ==
    { s \in [1..Cardinality(S) -> S] :
        \A i, j \in 1..Cardinality(S) : i # j => s[i] # s[j] }

-----------------------------------------------------------------------------
(* The string literals of the program.                                     *)

s_index == << "i", "n", "d", "e", "x" >>
s_mdx == << ".", "m", "d", "x" >>
s_node_modules == << "n", "o", "d", "e", "_", "m", "o", "d", "u", "l", "e", "s" >>
s_git == << ".", "g", "i", "t" >>
s_http == << "h", "t", "t", "p" >>
s_https == << "h", "t", "t", "p", "s" >>
s_mailto == << "m", "a", "i", "l", "t", "o" >>
s_hash == << "#" >>
s_arrow == << " ", "-", ">", " " >>

k_name == << "n", "a", "m", "e" >>
k_logo == << "l", "o", "g", "o" >>
k_favicon == << "f", "a", "v", "i", "c", "o", "n" >>
k_colors == << "c", "o", "l", "o", "r", "s" >>
k_theme == << "t", "h", "e", "m", "e" >>
k_navigation == << "n", "a", "v", "i", "g", "a", "t", "i", "o", "n" >>
k_tabs == << "t", "a", "b", "s" >>
k_groups == << "g", "r", "o", "u", "p", "s" >>
k_pages == << "p", "a", "g", "e", "s" >>

t_mint == << "m", "i", "n", "t" >>
t_maple == << "m", "a", "p", "l", "e" >>
t_palm == << "p", "a", "l", "m" >>
t_willow == << "w", "i", "l", "l", "o", "w" >>
t_linden == << "l", "i", "n", "d", "e", "n" >>
t_almond == << "a", "l", "m", "o", "n", "d" >>
t_aspen == << "a", "s", "p", "e", "n" >>

-----------------------------------------------------------------------------
(* JSON values as json.load returns them.                                  *)

JNull == [t |-> "null"]
JBool(b) == [t |-> "bool", b |-> b]
JNum(n) == [t |-> "num", n |-> n]
JStr(s) == [t |-> "str", s |-> s]
JList(l) == [t |-> "list", l |-> l]
JDict(d) == [t |-> "dict", d |-> d]

\* the dict with no key
NoKeys == [k \in {} |-> JNull]

\* bool(v): the truth value of a Python object
Truthy(v) ==
    CASE v.t = "null" -> FALSE
      [] v.t = "bool" -> v.b
      [] v.t = "num" -> v.n # 0
      [] v.t = "str" -> Len(v.s) > 0
      [] v.t = "list" -> Len(v.l) > 0
      [] v.t = "dict" -> DOMAIN v.d # {}

\* whether s occurs in the string v (key in "a string")
IsSubstring(s, v) ==
    \E i \in 1..(Len(v) - Len(s) + 1) : SubSeq(v, i, i + Len(s) - 1) = s

\* whether `key in v` raises TypeError: None, bool and int are not iterable
InRaises(v) == v.t \in {"null", "bool", "num"}

\* key in v, where it does not raise
In(key, v) ==
    CASE v.t = "dict" -> key \in DOMAIN v.d
      [] v.t = "list" -> InList(JStr(key), v.l)
      [] v.t = "str" -> Len(key) = 0 \/ IsSubstring(key, v.s)
      [] OTHER -> FALSE

\* whether v[key] raises for a str key: only a dict can be indexed by a str
\* (and In(key, v) has held, so a dict has the key)
IndexRaises(v) == v.t # "dict"

-----------------------------------------------------------------------------
(* validate_schema                                                          *)

\* required_keys with 'favicon' left out of the list
required_keys_no_favicon == << k_name, k_logo, k_colors, k_theme, k_navigation >>

required_keys == << k_name, k_logo, k_favicon, k_colors, k_theme, k_navigation >>

\* valid_themes with 'aspen' left out of the list
valid_themes_no_aspen == << t_mint, t_maple, t_palm, t_willow, t_linden, t_almond >>

valid_themes == << t_mint, t_maple, t_palm, t_willow, t_linden, t_almond, t_aspen >>

MissingKey(key) == [msg |-> "Missing required key", key |-> key]

InvalidTheme(v) == [msg |-> "Invalid theme", theme |-> v, expected |-> valid_themes]

NavNoTabs == [msg |-> "Navigation object must contain 'tabs' array."]

NavBadShape ==
    [msg |-> "Navigation must be either an array of groups or an object with 'tabs'."]

\* for key in required_keys: if key not in config: errors.append(...)
RECURSIVE MissingKeyErrors(_, _)
MissingKeyErrors(keys, cfg) ==
    IF Len(keys) = 0 THEN << >>
    ELSE (IF In(Head(keys), cfg) THEN << >> ELSE << MissingKey(Head(keys)) >>)
         \o MissingKeyErrors(Tail(keys), cfg)

\* config["theme"] not in valid_themes: no valid theme compares equal to it
ThemeErrors(cfg) ==
    IF In(k_theme, cfg) /\ ~InList(cfg.d[k_theme], [i \in 1..Len(valid_themes) |-> JStr(valid_themes[i])])
    THEN << InvalidTheme(cfg.d[k_theme]) >>
    ELSE << >>

NavigationErrors(cfg) ==
    IF In(k_navigation, cfg)
    THEN LET nav == cfg.d[k_navigation]
         IN  IF nav.t = "list" THEN << >>
             ELSE IF nav.t = "dict"
                  THEN (IF k_tabs \in DOMAIN nav.d THEN << >> ELSE << NavNoTabs >>)
                  ELSE << NavBadShape >>
    ELSE << >>

\* whether validate_schema(cfg) raises TypeError: cfg does not support `in`,
\* or holds the key (a list element, a substring) and cannot be indexed by it
validate_schema_raises(cfg) ==
    \/ InRaises(cfg)
    \/ In(k_theme, cfg) /\ IndexRaises(cfg)
    \/ In(k_navigation, cfg) /\ IndexRaises(cfg)

\* the list validate_schema(cfg) returns, where it does not raise
validate_schema(cfg) ==
    MissingKeyErrors(required_keys, cfg) \o ThemeErrors(cfg) \o NavigationErrors(cfg)

-----------------------------------------------------------------------------
(* extract_pages_from_groups, get_nav_pages                                *)

\* whether `for x in v` works
Iterable(v) == v.t \in {"list", "str", "dict"}

\* what `for x in v` yields: the elements of a list, the characters of a str,
\* the keys of a dict (the results below are sets: the order does not matter)
Items(v) ==
    CASE v.t = "list" -> v.l
      [] v.t = "str" -> [i \in 1..Len(v.s) |-> JStr(<< v.s[i] >>)]
      [] v.t = "dict" ->
            LET ks == CHOOSE o \in IterationOrders(DOMAIN v.d) : TRUE
            IN  [i \in 1..Len(ks) |-> JStr(ks[i])]
      [] OTHER -> << >>

\* whether one pass of the loop over groups raises on this group
GroupRaises(group) ==
    \/ InRaises(group)
    \/ In(k_pages, group) /\ IndexRaises(group)
    \/ In(k_pages, group) /\ ~Iterable(group.d[k_pages])

\* the loop over a group's pages, had it expanded a sub-group's pages
RECURSIVE PagesOfEntries_expands(_)
PagesOfEntries_expands(entries) ==
    IF Len(entries) = 0 THEN {}
    ELSE (IF Head(entries).t = "str" THEN {Head(entries).s}
          ELSE IF Head(entries).t = "dict" /\ k_pages \in DOMAIN Head(entries).d
          THEN PagesOfEntries_expands(Head(entries).d[k_pages].l)
          ELSE {})
         \cup PagesOfEntries_expands(Tail(entries))

\* for page in group['pages']: if isinstance(page, str): pages.add(page);
\* a dict entry with 'pages' is passed over
RECURSIVE PagesOfEntries(_)
PagesOfEntries(entries) ==
    IF Len(entries) = 0 THEN {}
    ELSE (IF Head(entries).t = "str" THEN {Head(entries).s} ELSE {})
         \cup PagesOfEntries(Tail(entries))

RECURSIVE extract_pages_from_groups(_)
extract_pages_from_groups(groups) ==
    IF Len(groups) = 0 THEN [raised |-> FALSE, pages |-> {}]
    ELSE LET group == Head(groups)
             rest == extract_pages_from_groups(Tail(groups))
         IN  IF GroupRaises(group) THEN [raised |-> TRUE, pages |-> {}]
             ELSE IF In(k_pages, group)
                  THEN [raised |-> rest.raised,
                        pages |-> PagesOfEntries(Items(group.d[k_pages])) \cup rest.pages]
                  ELSE rest

\* whether one pass of the loop over nav['tabs'] raises on this tab
TabRaises(tab) ==
    \/ InRaises(tab)
    \/ In(k_groups, tab) /\ IndexRaises(tab)
    \/ In(k_groups, tab) /\ ~Iterable(tab.d[k_groups])

\* for tab in tabs: if 'groups' in tab: groups.extend(tab['groups'])
RECURSIVE GroupsOfTabs(_)
GroupsOfTabs(tabs) ==
    IF Len(tabs) = 0 THEN << >>
    ELSE (IF ~TabRaises(Head(tabs)) /\ In(k_groups, Head(tabs))
          THEN Items(Head(tabs).d[k_groups]) ELSE << >>)
         \o GroupsOfTabs(Tail(tabs))

\* get_nav_pages(cfg): [raised, pages]
get_nav_pages(cfg) ==
    IF InRaises(cfg) THEN [raised |-> TRUE, pages |-> {}]
    ELSE IF ~In(k_navigation, cfg) THEN [raised |-> FALSE, pages |-> {}]
    ELSE IF IndexRaises(cfg) THEN [raised |-> TRUE, pages |-> {}]
    ELSE LET nav == cfg.d[k_navigation]
         IN  IF nav.t = "list" THEN extract_pages_from_groups(nav.l)
             ELSE IF nav.t = "dict" /\ k_tabs \in DOMAIN nav.d
             THEN LET tabs == nav.d[k_tabs]
                  IN  IF ~Iterable(tabs) \/ \E i \in 1..Len(Items(tabs)) : TabRaises(Items(tabs)[i])
                      THEN [raised |-> TRUE, pages |-> {}]
                      ELSE extract_pages_from_groups(GroupsOfTabs(Items(tabs)))
             ELSE extract_pages_from_groups(<< >>)

-----------------------------------------------------------------------------
(* os.path, as far as the program uses it.  A file of the tree is           *)
(* [dir |-> the directories from DOCS_ROOT down to it, name, text].         *)

\* os.altsep: "/" on Windows, None elsewhere
HasAltSep == ossep = "\\"

\* os.path.join(a, b) for a relative b
PathJoin(a, b) ==
    IF Len(a) = 0 \/ a[Len(a)] = ossep \/ (HasAltSep /\ a[Len(a)] = "/")
    THEN a \o b
    ELSE a \o << ossep >> \o b

RECURSIVE PathJoinAll(_, _)
PathJoinAll(a, parts) ==
    IF Len(parts) = 0 THEN a ELSE PathJoinAll(PathJoin(a, Head(parts)), Tail(parts))

\* the `root` os.walk yields for the directory dir
WalkRoot(dir) == PathJoinAll(DOCS_ROOT, dir)

\* os.path.join(root, file) for a file of the tree
AbsPath(f) == PathJoin(WalkRoot(f.dir), f.name)

\* len(os.path.commonprefix([a, b])) for two lists
RECURSIVE CommonPrefixLen(_, _)
CommonPrefixLen(a, b) ==
    IF Len(a) = 0 \/ Len(b) = 0 \/ Head(a) # Head(b) THEN 0
    ELSE 1 + CommonPrefixLen(Tail(a), Tail(b))

\* os.path.relpath(path, start) for absolute, normalized paths
RelPath(path, start) ==
    LET start_list == NonEmpty(Split(start, ossep))
        path_list == NonEmpty(Split(path, ossep))
        i == CommonPrefixLen(start_list, path_list)
        rel_list == [n \in 1..(Len(start_list) - i) |-> << ".", "." >>]
                    \o SubSeq(path_list, i + 1, Len(path_list))
    IN  IF Len(rel_list) = 0 THEN << "." >> ELSE Join(rel_list, ossep)

\* os.path.splitext(p)[0]: p up to the last dot of its last component, unless
\* that component has only leading dots before it
SplitExtRoot(p) ==
    LET sepIndex == IF HasAltSep /\ RFind(p, "/") > RFind(p, ossep)
                    THEN RFind(p, "/") ELSE RFind(p, ossep)
        dotIndex == RFind(p, ".")
    IN  IF dotIndex > sepIndex
           /\ \E i \in (sepIndex + 1)..(dotIndex - 1) : p[i] # "."
        THEN SubSeq(p, 1, dotIndex - 1)
        ELSE p

-----------------------------------------------------------------------------
(* find_mdx_files                                                           *)

\* 'node_modules' in root.split(os.sep) or '.git' in root.split(os.sep)
Skipped(root) ==
    InList(s_node_modules, Split(root, ossep)) \/ InList(s_git, Split(root, ossep))

\* the identifier added for a file: relpath, splitext, replace
Identifier(f) ==
    Replace(SplitExtRoot(RelPath(AbsPath(f), DOCS_ROOT)), ossep, "/")

\* os.walk visits every directory, the ones below a skipped one too (their
\* root holds the skipped component as well)
find_mdx_files ==
    { Identifier(f) :
        f \in { g \in tree : ~Skipped(WalkRoot(g.dir)) /\ EndsWith(g.name, s_mdx) } }

-----------------------------------------------------------------------------
(* extract_links: re.findall(r'\[.*?\]\((.*?)\)', content)                  *)

\* where the group (.*?) ends when it starts at k: at the first ")" with no
\* newline before it (`.` matches every character but the newline); 0: nowhere
RECURSIVE TargetEnd(_, _)
TargetEnd(text, k) ==
    IF k > Len(text) \/ text[k] = "\n" THEN 0
    ELSE IF text[k] = ")" THEN k
    ELSE TargetEnd(text, k + 1)

\* where the label .*? of a match ends when the scan stands at j: at the first
\* "](" that a target can follow, with no newline before it; 0: nowhere
RECURSIVE LabelEnd(_, _)
LabelEnd(text, j) ==
    IF j >= Len(text) THEN 0
    ELSE IF text[j] = "]" /\ text[j + 1] = "(" /\ TargetEnd(text, j + 2) # 0 THEN j
    ELSE IF text[j] = "\n" THEN 0
    ELSE LabelEnd(text, j + 1)

\* the matches from position pos on: the leftmost "[" a match can start at,
\* the shortest label, the shortest target, then on from the end of the match
RECURSIVE FindAll(_, _)
FindAll(text, pos) ==
    LET s == FindFrom(text, "[", pos)
        j == LabelEnd(text, s + 1)
        k == TargetEnd(text, j + 2)
    IN  IF s = 0 THEN << >>
        ELSE IF j = 0 THEN FindAll(text, s + 1)
        ELSE << SubSeq(text, j + 2, k - 1) >> \o FindAll(text, k + 1)

external_prefixes == << s_http, s_https, s_mailto, s_hash >>

\* if not link.startswith(('http', 'https', 'mailto', '#')): links.append(link)
RECURSIVE KeepInternal(_)
KeepInternal(matches) ==
    IF Len(matches) = 0 THEN << >>
    ELSE (IF StartsWithAny(Head(matches), external_prefixes) THEN << >>
          ELSE << Head(matches) >>)
         \o KeepInternal(Tail(matches))

extract_links(text) == KeepInternal(FindAll(text, 1))

-----------------------------------------------------------------------------
(* validate_links                                                           *)

\* os.path.join(DOCS_ROOT, file_rel_path.replace('/', os.sep) + '.mdx')
DiskPath(file_rel_path) ==
    PathJoin(DOCS_ROOT, Replace(file_rel_path, "/", ossep) \o s_mdx)

\* os.path.exists(file_disk_path)
Exists(path) == \E f \in tree : AbsPath(f) = path

\* the content of the file at path
ReadText(path) == (CHOOSE f \in tree : AbsPath(f) = path).text

\* clean_link = link.split('#')[0]
clean_link(link) == Split(link, "#")[1]

\* target = clean_link[1:] if clean_link.startswith('/') else clean_link
LinkTarget(link) ==
    IF StartsWith(clean_link(link), << "/" >>)
    THEN SubSeq(clean_link(link), 2, Len(clean_link(link)))
    ELSE clean_link(link)

\* the test, had it not looked at nav_pages
IsBroken_ignores_nav(link, found, nav) ==
    /\ LinkTarget(link) \notin found
    /\ LinkTarget(link) # s_index

\* the test that appends to broken_links
IsBroken(link, found, nav) ==
    /\ LinkTarget(link) \notin found
    /\ LinkTarget(link) # s_index
    /\ LinkTarget(link) \notin nav

\* the entries one file adds to broken_links
RECURSIVE BrokenOf(_, _, _, _)
BrokenOf(file_rel_path, links, found, nav) ==
    IF Len(links) = 0 THEN << >>
    ELSE (IF IsBroken(Head(links), found, nav)
          THEN << file_rel_path \o s_arrow \o Head(links) >> ELSE << >>)
         \o BrokenOf(file_rel_path, Tail(links), found, nav)

\* broken_links after the loop over found_files, iterated in this order
RECURSIVE BrokenLinks(_, _, _)
BrokenLinks(order, found, nav) ==
    IF Len(order) = 0 THEN << >>
    ELSE (IF Exists(DiskPath(Head(order)))
          THEN BrokenOf(Head(order), extract_links(ReadText(DiskPath(Head(order)))),
                        found, nav)
          ELSE << >>)
         \o BrokenLinks(Tail(order), found, nav)

-----------------------------------------------------------------------------
(* load_docs_json and the lines the program prints                          *)

Absent == [state |-> "absent"]
Invalid == [state |-> "invalid"]
Parsed(v) == [state |-> "ok", value |-> v]

DOCS_JSON_PATH == PathJoin(DOCS_ROOT, << "d", "o", "c", "s", ".", "j", "s", "o", "n" >>)

Line(text) == [text |-> text]
ItemLine(item) == [text |-> "  - ", item |-> item]
ErrorLine(err) == [text |-> "  - ", err |-> err]

RECURSIVE ItemLines(_)
ItemLines(items) ==
    IF Len(items) = 0 THEN << >> ELSE << ItemLine(Head(items)) >> \o ItemLines(Tail(items))

RECURSIVE ErrorLines(_)
ErrorLines(errs) ==
    IF Len(errs) = 0 THEN << >> ELSE << ErrorLine(Head(errs)) >> \o ErrorLines(Tail(errs))

Banner == Line("Synarche Documentation Validator Initiated...")
NotFoundLine == [text |-> "Error: docs.json not found at", path |-> DOCS_JSON_PATH]
ParseErrorLine == [text |-> "Error parsing docs.json", e |-> "JSONDecodeError"]
SchemaStartLine == Line("Validating Schema...")
SchemaErrorsLine == Line("[SCHEMA] Errors detected in docs.json:")
SchemaValidLine == Line("[SCHEMA] docs.json schema appears valid.")
MissingLine == Line("[MISSING] The following pages are in docs.json but file missing:")
NavOkLine == Line("[NAV] All docs.json pages exist on disk.")
OrphanLine == Line("[ORPHAN] The following MDX files found but NOT in docs.json navigation:")
CleanLine == Line("[CLEAN] No orphan MDX files found.")
LinksStartLine == Line("Scanning Internal Links...")
BrokenLine == Line("[BROKEN LINKS] Potential broken internal links detected:")
LinksOkLine == Line("[LINKS] No broken internal link paths detected (AbsolutePath Check).")
CompleteLine == Line("Validation Complete.")

\* load_docs_json(): what it returns (None is JNull) and what it prints
load_docs_json ==
    CASE docs.state = "absent" -> [value |-> JNull, printed |-> << NotFoundLine >>]
      [] docs.state = "invalid" -> [value |-> JNull, printed |-> << ParseErrorLine >>]
      [] docs.state = "ok" -> [value |-> docs.value, printed |-> << >>]

\* validate, had it gone on without a config
EarlyReturn_never(cfg) == FALSE

\* validate: `if not config: return`
EarlyReturn(cfg) == ~Truthy(cfg)

\* the missing check, had it exempted 'index' as the orphan check does
RECURSIVE MissingFiles_exempts_index(_, _)
MissingFiles_exempts_index(order, found) ==
    IF Len(order) = 0 THEN << >>
    ELSE (IF Head(order) \notin found /\ Head(order) # s_index
          THEN << Head(order) >> ELSE << >>)
         \o MissingFiles_exempts_index(Tail(order), found)

\* validate: missing_files = [page for page in nav_pages if page not in found_files],
\* nav_pages iterated in this order
RECURSIVE MissingFiles(_, _)
MissingFiles(order, found) ==
    IF Len(order) = 0 THEN << >>
    ELSE (IF Head(order) \notin found THEN << Head(order) >> ELSE << >>)
         \o MissingFiles(Tail(order), found)

\* the orphan check, had it worked on found_files in place
\* (orphans = found_files; orphans -= nav_pages; orphans.discard('index'))
orphan_step_in_place(found, nav) ==
    [orphans |-> (found \ nav) \ {s_index},
     found_files |-> (found \ nav) \ {s_index},
     nav_pages |-> nav]

\* validate: orphans = found_files - nav_pages; if 'index' in orphans:
\* orphans.remove('index').  The difference is a new set: the three sets after
\* these lines
orphan_step(found, nav) ==
    LET diff == found \ nav
    IN  [orphans |-> IF s_index \in diff THEN diff \ {s_index} ELSE diff,
         found_files |-> found,
         nav_pages |-> nav]

-----------------------------------------------------------------------------
(* The steps of validate()                                                  *)

Terminal == {"returned", "raised", "done"}

ResultsInit ==
    /\ schema_errors = << >>
    /\ nav_pages = {}
    /\ found_files = {}
    /\ missing_files = << >>
    /\ orphans = << >>
    /\ broken_links = << >>
    /\ out = << >>
    /\ calls = << >>

LocalsInit == config = JNull /\ ResultsInit

env == << ossep, DOCS_ROOT, docs, tree, run, prev_out >>

\* print the banner, config = load_docs_json(), if not config: return
Load ==
    /\ pc = "start"
    /\ config' = load_docs_json.value
    /\ out' = out \o << Banner >> \o load_docs_json.printed
    /\ calls' = Append(calls, "load_docs_json")
    /\ pc' = IF EarlyReturn(load_docs_json.value) THEN "returned" ELSE "schema"
    /\ UNCHANGED << env, schema_errors, nav_pages, found_files, missing_files,
                    orphans, broken_links >>

\* schema_errors = validate_schema(config) and its report
Schema ==
    /\ pc = "schema"
    /\ calls' = Append(calls, "validate_schema")
    /\ IF validate_schema_raises(config)
       THEN /\ pc' = "raised"
            /\ out' = Append(out, SchemaStartLine)
            /\ UNCHANGED schema_errors
       ELSE /\ pc' = "nav"
            /\ schema_errors' = validate_schema(config)
            /\ out' = out \o << SchemaStartLine >>
                      \o (IF Len(validate_schema(config)) > 0
                          THEN << SchemaErrorsLine >> \o ErrorLines(validate_schema(config))
                          ELSE << SchemaValidLine >>)
    /\ UNCHANGED << env, config, nav_pages, found_files, missing_files, orphans,
                    broken_links >>

\* nav_pages = get_nav_pages(config)
Nav ==
    /\ pc = "nav"
    /\ calls' = Append(calls, "get_nav_pages")
    /\ IF get_nav_pages(config).raised
       THEN pc' = "raised" /\ UNCHANGED nav_pages
       ELSE pc' = "scan" /\ nav_pages' = get_nav_pages(config).pages
    /\ UNCHANGED << env, config, schema_errors, found_files, missing_files, orphans,
                    broken_links, out >>

\* found_files = find_mdx_files()
Scan ==
    /\ pc = "scan"
    /\ calls' = Append(calls, "find_mdx_files")
    /\ found_files' = find_mdx_files
    /\ pc' = "missing"
    /\ UNCHANGED << env, config, schema_errors, nav_pages, missing_files, orphans,
                    broken_links, out >>

\* 1. Check for Missing Files
Missing ==
    /\ pc = "missing"
    /\ \E order \in IterationOrders(nav_pages) :
         /\ missing_files' = MissingFiles(order, found_files)
         /\ out' = out \o (IF Len(MissingFiles(order, found_files)) > 0
                           THEN << MissingLine >> \o ItemLines(MissingFiles(order, found_files))
                           ELSE << NavOkLine >>)
    /\ pc' = "orphans"
    /\ UNCHANGED << env, config, schema_errors, nav_pages, found_files, orphans,
                    broken_links, calls >>

\* 2. Check for Orphan Files
Orphans ==
    /\ pc = "orphans"
    /\ found_files' = orphan_step(found_files, nav_pages).found_files
    /\ nav_pages' = orphan_step(found_files, nav_pages).nav_pages
    /\ \E order \in IterationOrders(orphan_step(found_files, nav_pages).orphans) :
         /\ orphans' = order
         /\ out' = out \o (IF Len(order) > 0
                           THEN << OrphanLine >> \o ItemLines(order)
                           ELSE << CleanLine >>)
    /\ pc' = "links"
    /\ UNCHANGED << env, config, schema_errors, missing_files, broken_links, calls >>

\* 3. Link Validation: validate_links(found_files, nav_pages)
Links ==
    /\ pc = "links"
    /\ calls' = Append(calls, "validate_links")
    /\ \E order \in IterationOrders(found_files) :
         /\ broken_links' = BrokenLinks(order, found_files, nav_pages)
         /\ out' = out \o << LinksStartLine >>
                   \o (IF Len(BrokenLinks(order, found_files, nav_pages)) > 0
                       THEN << BrokenLine >>
                            \o ItemLines(BrokenLinks(order, found_files, nav_pages))
                       ELSE << LinksOkLine >>)
    /\ pc' = "complete"
    /\ UNCHANGED << env, config, schema_errors, nav_pages, found_files, missing_files,
                    orphans >>

\* print("Validation Complete.")
Complete ==
    /\ pc = "complete"
    /\ out' = Append(out, CompleteLine)
    /\ pc' = "done"
    /\ UNCHANGED << env, config, schema_errors, nav_pages, found_files, missing_files,
                    orphans, broken_links, calls >>

\* the program is run again, as a new process, on the unchanged tree
Rerun ==
    /\ pc \in Terminal
    /\ run = 1
    /\ run' = 2
    /\ prev_out' = out
    /\ pc' = "start"
    /\ config' = JNull
    /\ schema_errors' = << >>
    /\ nav_pages' = {}
    /\ found_files' = {}
    /\ missing_files' = << >>
    /\ orphans' = << >>
    /\ broken_links' = << >>
    /\ out' = << >>
    /\ calls' = << >>
    /\ UNCHANGED << ossep, DOCS_ROOT, docs, tree >>

-----------------------------------------------------------------------------
(* The inputs: configs, trees and file contents.                            *)

SeqsUpTo(S, n) == UNION { [1..k -> S] : k \in 0..n }

p_a == << "a" >>
p_b == << "b" >>
p_c == << "c" >>
p_n == << "n" >>
p_zz == << "z", "z" >>

File(dir, name, text) == [dir |-> dir, name |-> name, text |-> text]

\* the markup of one link
Link(label, target) == << "[" >> \o label \o << "]", "(" >> \o target \o << ")" >>

Group(entries) == JDict(k_pages :> JList(entries))
GroupNoPages == JDict(<< "g", "r", "o", "u", "p" >> :> JStr(<< "G" >>))
SubGroup(entries) == JDict(<< "g", "r", "o", "u", "p" >> :> JStr(<< "S" >>) @@ k_pages :> JList(entries))
Tab(groups) == JDict(<< "t", "a", "b" >> :> JStr(<< "T" >>) @@ k_groups :> JList(groups))
TabNoGroups == JDict(<< "t", "a", "b" >> :> JStr(<< "T" >>))

\* a config with every required key
ValidConfig(nav) ==
    JDict(k_name :> JStr(<< "D" >>) @@ k_logo :> JStr(<< "l" >>)
          @@ k_favicon :> JStr(<< "f" >>) @@ k_colors :> JDict(NoKeys)
          @@ k_theme :> JStr(t_mint) @@ k_navigation :> nav)

\* the files of the runs of the whole program
PipelineFiles ==
    { File(<< >>, p_a \o s_mdx,
           Link(<< "x" >>, p_b) \o << " " >> \o Link(<< "y" >>, p_zz)),
      File(<< >>, p_b \o s_mdx,
           Link(<< "x" >>, << "/", "a", "#", "t" >>) \o << "\n" >>
           \o Link(<< "y" >>, << "#", "f" >>) \o Link(<< "z" >>, p_c)),
      File(<< >>, s_index \o s_mdx,
           Link(<< "h" >>, s_https \o << ":", "/", "/", "e" >>)),
      File(<< << "d" >> >>, << "e" >> \o s_mdx, << >>) }

PipelinePages == { JStr(p_a), JStr(p_c), JStr(s_index) }

\* what docs.json can hold: values that are no mapping, the empty mapping,
\* valid configs in both navigation forms, a config with schema errors, and a
\* config whose tabs are no list
PipelineValues ==
    { JDict(NoKeys), JList(<< >>), JList(<< JNum(1) >>), JNum(0), JNum(5),
      JBool(TRUE), JStr(<< "x" >>) }
    \cup { ValidConfig(JList(<< Group(l) >>)) : l \in SeqsUpTo(PipelinePages, MaxPages) }
    \cup { ValidConfig(JDict(k_tabs :> JList(<< Tab(<< Group(<< JStr(p_a) >>) >>) >>))),
           ValidConfig(JDict(k_tabs :> JNum(5))),
           JDict(k_theme :> JStr(<< "d", "a", "r", "k" >>) @@ k_navigation :> JStr(<< "x" >>)) }

PipelineDocs == { Absent, Invalid } \cup { Parsed(v) : v \in PipelineValues }

-----------------------------------------------------------------------------
(* One run of the program.                                                  *)

Init ==
    /\ ossep = "/"
    /\ DOCS_ROOT = << "/", "w" >>
    /\ docs \in PipelineDocs
    /\ tree \in { t \in SUBSET PipelineFiles : Cardinality(t) <= MaxFiles }
    /\ pc = "start"
    /\ LocalsInit
    /\ run = 1
    /\ prev_out = << >>

Next ==
    \/ Load
    \/ Schema
    \/ Nav
    \/ Scan
    \/ Missing
    \/ Orphans
    \/ Links
    \/ Complete

Spec == Init /\ [][Next]_vars

-----------------------------------------------------------------------------
(* The program run twice on an unchanged tree and an unchanged docs.json.   *)

InitTwice ==
    /\ ossep = "/"
    /\ DOCS_ROOT = << "/", "w" >>
    /\ docs \in
         { Absent,
           Parsed(ValidConfig(JList(<< Group(<< JStr(p_a), JStr(p_c), JStr(s_index) >>) >>))),
           Parsed(ValidConfig(JList(<< >>))),
           Parsed(JDict(k_navigation :> JNum(1))) }
    /\ tree \in SUBSET PipelineFiles
    /\ pc = "start"
    /\ LocalsInit
    /\ run = 1
    /\ prev_out = << >>

NextTwice ==
    \/ Next
    \/ Rerun

SpecTwice == InitTwice /\ [][NextTwice]_vars

-----------------------------------------------------------------------------
(* validate_schema applied to a config.                                     *)

\* the values of "theme": the valid ones, other strings, and a number
ThemeValues ==
    { JStr(t) : t \in { t_mint, t_maple, t_palm, t_willow, t_linden, t_almond, t_aspen } }
    \cup { JStr(<< "d", "a", "r", "k" >>), JStr(<< "M", "i", "n", "t" >>), JStr(<< >>),
           JNum(1) }

\* the values of "navigation": both valid shapes and the invalid ones
NavigationValues ==
    { JList(<< >>), JList(<< Group(<< JStr(p_a) >>) >>),
      JDict(k_tabs :> JList(<< >>)), JDict(NoKeys), JDict(k_groups :> JList(<< >>)),
      JStr(p_a), JNull }

SchemaValuesOf(k) ==
    CASE k = k_theme -> ThemeValues
      [] k = k_navigation -> NavigationValues
      [] k = k_colors -> { JDict(NoKeys) }
      [] OTHER -> { JStr(<< "v" >>) }

\* the dicts with a subset of the keys ks, each key with one of its values
RECURSIVE SchemaDicts(_)
SchemaDicts(ks) ==
    IF ks = {} THEN { NoKeys }
    ELSE LET k == CHOOSE x \in ks : TRUE
             rest == SchemaDicts(ks \ {k})
         IN  rest \cup { (k :> v) @@ d : v \in SchemaValuesOf(k), d \in rest }

\* the required keys and one key that is not required
SchemaConfigs ==
    { JDict(d) : d \in SchemaDicts({ k_name, k_logo, k_favicon, k_colors, k_theme,
                                     k_navigation, k_tabs }) }

FunctionEnv ==
    /\ ossep = "/"
    /\ DOCS_ROOT = << "/", "w" >>
    /\ docs = Absent
    /\ run = 1
    /\ prev_out = << >>

InitSchema ==
    /\ FunctionEnv
    /\ tree = {}
    /\ pc = "call"
    /\ ResultsInit
    /\ config \in SchemaConfigs

\* schema_errors = validate_schema(config), for a mapping
CallValidateSchema ==
    /\ pc = "call"
    /\ schema_errors' = validate_schema(config)
    /\ calls' = Append(calls, "validate_schema")
    /\ pc' = "ret"
    /\ UNCHANGED << env, config, nav_pages, found_files, missing_files, orphans,
                    broken_links, out >>

NextSchema == CallValidateSchema

SpecSchema == InitSchema /\ [][NextSchema]_vars

-----------------------------------------------------------------------------
(* get_nav_pages applied to a config.                                       *)

\* a page entry is an identifier, or a sub-group with a page of its own
NavGroups ==
    { Group(l) : l \in SeqsUpTo({ JStr(p_a), JStr(p_b), SubGroup(<< JStr(p_c) >>) }, MaxPages) }
    \cup { GroupNoPages }

LegacyNavs == { JList(gs) : gs \in SeqsUpTo(NavGroups, MaxGroups) }

TabGroups ==
    { GroupNoPages, Group(<< JStr(p_a) >>),
      Group(<< JStr(p_b), SubGroup(<< JStr(p_c) >>) >>) }

NavTabs == { Tab(gs) : gs \in SeqsUpTo(TabGroups, MaxGroups) } \cup { TabNoGroups }

TabbedNavs == { JDict(k_tabs :> JList(ts)) : ts \in SeqsUpTo(NavTabs, MaxTabs) }

NavConfigs ==
    { JDict(NoKeys), JDict(k_name :> JStr(<< "D" >>)) }
    \cup { JDict(k_navigation :> nav) :
             nav \in LegacyNavs \cup TabbedNavs \cup { JDict(NoKeys), JStr(p_a), JNum(1) } }

InitNav ==
    /\ FunctionEnv
    /\ tree = {}
    /\ pc = "call"
    /\ ResultsInit
    /\ config \in NavConfigs

\* nav_pages = get_nav_pages(config), for a config of the documented shapes
CallGetNavPages ==
    /\ pc = "call"
    /\ nav_pages' = get_nav_pages(config).pages
    /\ calls' = Append(calls, "get_nav_pages")
    /\ pc' = IF get_nav_pages(config).raised THEN "raised" ELSE "ret"
    /\ UNCHANGED << env, config, schema_errors, found_files, missing_files, orphans,
                    broken_links, out >>

NextNav == CallGetNavPages

SpecNav == InitNav /\ [][NextNav]_vars

-----------------------------------------------------------------------------
(* find_mdx_files applied to a tree, on both platforms and for several      *)
(* places of the project root.                                              *)

ScanFiles ==
    { File(<< >>, << "f", "o", "o" >> \o s_mdx, << >>),
      File(<< << "b", "a", "r" >> >>, << "b", "a", "z" >> \o s_mdx, << >>),
      File(<< s_node_modules >>, << "s", "k", "i", "p" >> \o s_mdx, << >>),
      File(<< s_node_modules \o << "_", "o", "l", "d" >> >>, << "k", "e", "e", "p" >> \o s_mdx, << >>),
      File(<< << "b", "a", "r" >>, s_node_modules, << "d", "e", "e", "p" >> >>,
           << "x" >> \o s_mdx, << >>),
      File(<< s_git >>, << "h" >> \o s_mdx, << >>),
      File(<< << "v", "1", ".", "2" >> >>, << "a", ".", "b" >> \o s_mdx, << >>),
      File(<< >>, << "n", "o", "t", "e", "s", ".", "t", "x", "t" >>, << >>) }

\* where the project root can be: the directories from the filesystem root
\* (the drive, on Windows) down to it
RootPlaces == { << << "w" >> >>, << s_node_modules, << "w" >> >>, << << "w" >>, s_git >> }

RootString(sep, place) ==
    (IF sep = "/" THEN << "/" >> ELSE << "C", ":", "\\" >>) \o Join(place, sep)

InitScan ==
    /\ ossep \in { "/", "\\" }
    /\ DOCS_ROOT \in { RootString(ossep, place) : place \in RootPlaces }
    /\ docs = Absent
    /\ run = 1
    /\ prev_out = << >>
    /\ tree \in { t \in SUBSET ScanFiles : Cardinality(t) <= MaxFiles }
    /\ pc = "call"
    /\ config = JNull
    /\ ResultsInit

\* found_files = find_mdx_files()
CallFindMdxFiles ==
    /\ pc = "call"
    /\ found_files' = find_mdx_files
    /\ calls' = Append(calls, "find_mdx_files")
    /\ pc' = "ret"
    /\ UNCHANGED << env, config, schema_errors, nav_pages, missing_files, orphans,
                    broken_links, out >>

NextScan == CallFindMdxFiles

SpecScan == InitScan /\ [][NextScan]_vars

-----------------------------------------------------------------------------
(* validate_links applied to the scanned files of a tree.                   *)

LinkTargets ==
    { p_a, << "/", "a", "#", "t" >>, << "#", "s" >>, s_https \o << ":", "/", "/", "e" >>,
      s_mailto \o << ":", "m" >>, s_index, p_n, p_zz, s_http \o << "d" >>,
      << "z", "z", "#", "f" >> }

LinkLists == SeqsUpTo(LinkTargets, MaxLinks)

\* a file's text with these links in it: a bracket that is no link, then the
\* links, a space after each
RECURSIVE RenderLinks(_)
RenderLinks(ls) ==
    IF Len(ls) = 0 THEN << "[", "i", "]", " " >>
    ELSE RenderLinks(SubSeq(ls, 1, Len(ls) - 1))
         \o Link(<< "x" >>, ls[Len(ls)]) \o << " " >>

LinkTexts == { RenderLinks(ls) : ls \in LinkLists }

f_src(text) == File(<< >>, << "s" >> \o s_mdx, text)
f_other == File(<< >>, p_a \o s_mdx, RenderLinks(<< p_zz >>))
f_sub == File(<< << "d" >> >>, << "e" >> \o s_mdx, RenderLinks(<< >>))
\* a file named '.mdx': splitext strips nothing, and '.mdx.mdx' is not on disk
f_dot == File(<< >>, s_mdx, RenderLinks(<< p_zz >>))

InitLinks ==
    /\ FunctionEnv
    /\ tree \in { { f_src(text) } \cup others :
                    text \in LinkTexts, others \in SUBSET { f_other, f_sub, f_dot } }
    /\ pc = "call"
    /\ config = JNull
    /\ schema_errors = << >>
    /\ found_files = {}
    /\ nav_pages \in SUBSET { p_n, p_a }
    /\ missing_files = << >>
    /\ orphans = << >>
    /\ broken_links = << >>
    /\ out = << >>
    /\ calls = << >>

\* found_files = find_mdx_files(), the set validate_links is given
ScanForLinks ==
    /\ pc = "call"
    /\ found_files' = find_mdx_files
    /\ calls' = Append(calls, "find_mdx_files")
    /\ pc' = "scanned"
    /\ UNCHANGED << env, config, schema_errors, nav_pages, missing_files, orphans,
                    broken_links, out >>

\* validate_links(found_files, nav_pages)
CallValidateLinks ==
    /\ pc = "scanned"
    /\ calls' = Append(calls, "validate_links")
    /\ \E order \in IterationOrders(found_files) :
         /\ broken_links' = BrokenLinks(order, found_files, nav_pages)
         /\ out' = out \o << LinksStartLine >>
                   \o (IF Len(BrokenLinks(order, found_files, nav_pages)) > 0
                       THEN << BrokenLine >>
                            \o ItemLines(BrokenLinks(order, found_files, nav_pages))
                       ELSE << LinksOkLine >>)
    /\ pc' = "ret"
    /\ UNCHANGED << env, config, schema_errors, nav_pages, found_files, missing_files,
                    orphans >>

NextLinks ==
    \/ ScanForLinks
    \/ CallValidateLinks

SpecLinks == InitLinks /\ [][NextLinks]_vars

-----------------------------------------------------------------------------
(* What the specification says, stated without the operators above.         *)

Range(q) == { q[i] : i \in 1..Len(q) }

Count(q, x) == Cardinality({ i \in 1..Len(q) : q[i] = x })

NoDuplicates(q) == \A i, j \in 1..Len(q) : i # j => q[i] # q[j]

\* the item lines that follow the first line `header` of out
RECURSIVE ItemsFrom(_, _)
ItemsFrom(q, i) ==
    IF i > Len(q) \/ "item" \notin DOMAIN q[i] THEN << >>
    ELSE << q[i].item >> \o ItemsFrom(q, i + 1)

Section(header) ==
    IF header \in Range(out)
    THEN ItemsFrom(out, 1 + CHOOSE i \in 1..Len(out) :
                            out[i] = header /\ \A j \in 1..(i - 1) : out[j] # header)
    ELSE << >>

\* the six required keys and the seven themes of the specification
SpecRequiredKeys == << k_name, k_logo, k_favicon, k_colors, k_theme, k_navigation >>

SpecThemes == { t_mint, t_maple, t_palm, t_willow, t_linden, t_almond, t_aspen }

\* ContentFileSet: the identifier of every .mdx file with no directory named
\* node_modules or .git between the root and it
ContentFileSet ==
    { Join(f.dir \o << SubSeq(f.name, 1, Len(f.name) - Len(s_mdx)) >>, "/") :
        f \in { g \in tree :
                  /\ EndsWith(g.name, s_mdx)
                  /\ \A i \in 1..Len(g.dir) : g.dir[i] \notin { s_node_modules, s_git } } }

\* the groups of a navigation of one of the two forms
GroupsOf(nav) ==
    IF nav.t = "list" THEN Range(nav.l)
    ELSE UNION { Range(tab.d[k_groups].l) :
                   tab \in { x \in Range(nav.d[k_tabs].l) : k_groups \in DOMAIN x.d } }

\* the entries of the 'pages' lists of these groups
EntriesOf(groups) ==
    UNION { Range(g.d[k_pages].l) : g \in { x \in groups : k_pages \in DOMAIN x.d } }

\* NavPageSet: the string entries found directly in the groups' pages
DirectPages(nav) == { e.s : e \in { x \in EntriesOf(GroupsOf(nav)) : x.t = "str" } }

\* the pages found only inside the sub-groups of the groups' pages
NestedOnlyPages(nav) ==
    { e.s : e \in { x \in EntriesOf({ y \in EntriesOf(GroupsOf(nav)) : y.t = "dict" }) :
                      x.t = "str" } }
    \ DirectPages(nav)

IsLegacy(cfg) == k_navigation \in DOMAIN cfg.d /\ cfg.d[k_navigation].t = "list"

IsTabbed(cfg) ==
    /\ k_navigation \in DOMAIN cfg.d
    /\ cfg.d[k_navigation].t = "dict"
    /\ k_tabs \in DOMAIN cfg.d[k_navigation].d

-----------------------------------------------------------------------------
(* The claims.                                                              *)

AllCalls ==
    << "load_docs_json", "validate_schema", "get_nav_pages", "find_mdx_files",
       "validate_links" >>

\* C1: whenever docs.json exists and parses, whatever the parsed value, the
\* run ends having validated the schema, attempted the three reports and
\* printed 'Validation Complete'.
C1_ParsedConfigRunsToCompletion ==
    (docs.state = "ok" /\ pc \in Terminal)
    => /\ pc = "done"
       /\ calls = AllCalls
       /\ { MissingLine, NavOkLine } \cap Range(out) # {}
       /\ { OrphanLine, CleanLine } \cap Range(out) # {}
       /\ { BrokenLine, LinksOkLine } \cap Range(out) # {}
       /\ out[Len(out)] = CompleteLine

\* C2: when docs.json is absent or is not valid JSON, load_docs_json prints
\* the error and returns no config, and validate returns normally having done
\* none of the later steps.
C2_FailedLoadSkipsEverything ==
    (docs.state \in { "absent", "invalid" } /\ pc # "start")
    => /\ pc = "returned"
       /\ config = JNull
       /\ calls = << "load_docs_json" >>
       /\ out = << Banner, IF docs.state = "absent" THEN NotFoundLine ELSE ParseErrorLine >>
       /\ schema_errors = << >> /\ nav_pages = {} /\ found_files = {}
       /\ missing_files = << >> /\ orphans = << >> /\ broken_links = << >>

C2_Witness == docs.state = "invalid" /\ pc = "returned" /\ Len(out) = 2

\* C3: the program run twice on an unchanged tree and docs.json prints the
\* same lines in the same order both times.
C3_SecondRunPrintsTheSame == (run = 2 /\ pc \in Terminal) => out = prev_out

\* C4: find_mdx_files returns exactly ContentFileSet: the identifiers of the
\* .mdx files with no directory named node_modules or .git between the root
\* and them, wherever the root itself is.
C4_ScanReturnsContentFileSet == pc = "ret" => found_files = ContentFileSet

AuthoredLinks == [t \in LinkTexts |-> CHOOSE ls \in LinkLists : RenderLinks(ls) = t]

FirstHash(t) == CHOOSE i \in 1..(Len(t) + 1) :
                    /\ i <= Len(t) => t[i] = "#"
                    /\ \A j \in 1..(i - 1) : t[j] # "#"

Stripped(t) ==
    LET cut == SubSeq(t, 1, FirstHash(t) - 1)
    IN  IF Len(cut) > 0 /\ cut[1] = "/" THEN Tail(cut) ELSE cut

BeginsWith(t, prefix) ==
    Len(t) >= Len(prefix) /\ \A i \in 1..Len(prefix) : t[i] = prefix[i]

ShouldReport(t) ==
    /\ ~BeginsWith(t, s_http) /\ ~BeginsWith(t, s_https)
    /\ ~BeginsWith(t, s_mailto) /\ ~BeginsWith(t, s_hash)
    /\ Stripped(t) \notin found_files
    /\ Stripped(t) # s_index
    /\ Stripped(t) \notin nav_pages

\* the files on disk that are the file of identifier F: F.mdx below the root
FilesOf(F) == { g \in tree : Join(g.dir \o << g.name >>, "/") = F \o s_mdx }

\* C5: a link [label](target) in the file of a scanned identifier F is
\* reported, once for each occurrence and as 'F -> target', exactly when the
\* target does not begin with http, https, mailto or # and, cut at its first
\* # and without one leading /, is no scanned file, is not 'index' and is no
\* navigation page.
C5_BrokenLinksAreExact ==
    pc = "ret"
    => /\ \A F \in found_files : \A g \in FilesOf(F) : \A t \in LinkTargets :
            Count(broken_links, F \o s_arrow \o t)
            = Cardinality({ i \in 1..Len(AuthoredLinks[g.text]) :
                              AuthoredLinks[g.text][i] = t /\ ShouldReport(t) })
       /\ \A e \in Range(broken_links) :
            \E F \in found_files : \E g \in FilesOf(F) :
               \E t \in Range(AuthoredLinks[g.text]) : e = F \o s_arrow \o t
       /\ (Len(broken_links) > 0 => Section(BrokenLine) = broken_links)
       /\ (Len(broken_links) = 0 => LinksOkLine \in Range(out))

\* the one file links to a fragment of its own and to a fragment of a page
\* that is nowhere: only the second is reported, with its fragment
C5_Witness ==
    /\ pc = "ret"
    /\ tree = { f_src(RenderLinks(<< << "#", "s" >>, << "z", "z", "#", "f" >> >>)) }
    /\ broken_links = << << "s" >> \o s_arrow \o << "z", "z", "#", "f" >> >>

\* C6: get_nav_pages returns exactly the string entries found directly in
\* the 'pages' of the groups: the groups of the navigation list, or of every
\* tab that has 'groups'; a sub-group's pages are not among them, and a
\* config with no 'navigation' yields the empty set.
C6_NavPagesAreTheDirectPages ==
    pc \in { "ret", "raised" }
    => /\ pc = "ret"
       /\ (k_navigation \notin DOMAIN config.d => nav_pages = {})
       /\ (IsLegacy(config) \/ IsTabbed(config)
           => /\ nav_pages = DirectPages(config.d[k_navigation])
              /\ nav_pages \cap NestedOnlyPages(config.d[k_navigation]) = {})

\* two tabs, one without groups: the pages of the other, but not the page of
\* its sub-group
C6_Witness ==
    /\ pc = "ret"
    /\ IsTabbed(config)
    /\ TabNoGroups \in Range(config.d[k_navigation].d[k_tabs].l)
    /\ NestedOnlyPages(config.d[k_navigation]) = { p_c }
    /\ nav_pages = { p_a, p_b }

OtherwiseValid(cfg) ==
    /\ k_theme \in DOMAIN cfg.d
       => cfg.d[k_theme].t = "str" /\ cfg.d[k_theme].s \in SpecThemes
    /\ k_navigation \in DOMAIN cfg.d => IsLegacy(cfg) \/ IsTabbed(cfg)

Lacking(cfg) == SelectSeq(SpecRequiredKeys, LAMBDA k : k \notin DOMAIN cfg.d)

\* C7: for a config that is valid but for the required keys it lacks,
\* validate_schema returns one "Missing required key" message for each key
\* lacking, in the order of the required keys, and nothing else.
C7_OneMessagePerMissingKey ==
    (pc = "ret" /\ OtherwiseValid(config))
    => /\ Len(schema_errors) = Cardinality(Range(SpecRequiredKeys) \ DOMAIN config.d)
       /\ Len(schema_errors) = Len(Lacking(config))
       /\ \A i \in 1..Len(schema_errors) :
            schema_errors[i] = [msg |-> "Missing required key", key |-> Lacking(config)[i]]

C7_Witness ==
    /\ pc = "ret"
    /\ OtherwiseValid(config)
    /\ DOMAIN config.d = { k_name, k_colors, k_theme, k_navigation }
    /\ Len(schema_errors) = 2
    /\ schema_errors[1].key = k_logo
    /\ schema_errors[2].key = k_favicon

InvalidThemeMessages == { i \in 1..Len(schema_errors) : schema_errors[i].msg = "Invalid theme" }

\* C8: with a 'theme' key, validate_schema gives one 'Invalid theme' message
\* when the value is none of the seven themes and none when it is one;
\* without the key it gives none, only the missing-key message.
C8_InvalidThemeExactlyWhenNotListed ==
    pc = "ret"
    => IF k_theme \in DOMAIN config.d
       THEN IF config.d[k_theme].t = "str" /\ config.d[k_theme].s \in SpecThemes
            THEN InvalidThemeMessages = {}
            ELSE /\ Cardinality(InvalidThemeMessages) = 1
                 /\ \A i \in InvalidThemeMessages :
                      schema_errors[i].theme = config.d[k_theme]
       ELSE /\ InvalidThemeMessages = {}
            /\ Count(schema_errors, [msg |-> "Missing required key", key |-> k_theme]) = 1

C8_Witness ==
    /\ pc = "ret"
    /\ k_theme \in DOMAIN config.d
    /\ config.d[k_theme] = JStr(<< "M", "i", "n", "t" >>)
    /\ Cardinality(InvalidThemeMessages) = 1

AfterOrphans == { "links", "complete", "done" }

\* C9: the orphan report lists exactly the scanned files that are no
\* navigation page, but never 'index'; making it leaves the set of scanned
\* files and the set of navigation pages as they were, so the link check
\* still gets 'index' and every other file.
C9_OrphansAreFilesOutsideNavigation ==
    pc \in AfterOrphans
    => /\ Range(orphans) = (find_mdx_files \ get_nav_pages(config).pages) \ { s_index }
       /\ NoDuplicates(orphans)
       /\ (Len(orphans) > 0 => Section(OrphanLine) = orphans)
       /\ (Len(orphans) = 0 => CleanLine \in Range(out) /\ OrphanLine \notin Range(out))
       /\ found_files = find_mdx_files
       /\ nav_pages = get_nav_pages(config).pages

\* files a, b and index with only a in the navigation: b alone is an orphan,
\* and index is still among the files the link check is given
C9_Witness ==
    /\ pc = "links"
    /\ found_files = { p_a, p_b, s_index }
    /\ nav_pages = { p_a }
    /\ orphans = << p_b >>

AfterMissing == { "orphans", "links", "complete", "done" }

\* C10: the missing report lists exactly the navigation pages that are no
\* scanned file, each once and 'index' like any other, and the run goes on:
\* the orphan and the link report follow.
C10_MissingAreNavigationPagesWithoutFile ==
    /\ pc \in AfterMissing
       => /\ Range(missing_files) = get_nav_pages(config).pages \ find_mdx_files
          /\ NoDuplicates(missing_files)
          /\ (Len(missing_files) > 0 => Section(MissingLine) = missing_files)
          /\ (Len(missing_files) = 0 => NavOkLine \in Range(out))
    /\ "find_mdx_files" \in Range(calls)
       => /\ pc \notin { "returned", "raised" }
    /\ pc = "done"
       => /\ { OrphanLine, CleanLine } \cap Range(out) # {}
          /\ { BrokenLine, LinksOkLine } \cap Range(out) # {}
          /\ out[Len(out)] = CompleteLine

\* c and index are in the navigation and have no file: both are reported
\* missing, and the run ends with the orphan and the link report made
C10_Witness ==
    /\ pc = "done"
    /\ Range(missing_files) = { p_c, s_index }
    /\ OrphanLine \in Range(out)
    /\ BrokenLine \in Range(out)

====
